---- MODULE Spec2Model ----
(***************************************************************************)
(* Model of two programs of the repository.                                *)
(*                                                                         *)
(* The Fitbit client of Dashboard/dashboard/fitbit_API.py with the token   *)
(* storage of Dashboard/dashboard/server.py: one action per call of        *)
(* get_resource and of refresh_tokens, and one for the passing of time.    *)
(*                                                                         *)
(* The rental-listing crawler of                                           *)
(* Rent-Prices-Toronto/scripts/scraper.py: the rate-limited GET            *)
(* (make_get_request), the two-level crawl loop of build_rental_datasets   *)
(* with its request/error logs, the summary and detail extraction, and the *)
(* final DataFrame(rows).to_csv.                                           *)
(*                                                                         *)
(* The run is modelled at the granularity of its blocking calls: one       *)
(* action per iteration of the outer loop (a listing-page fetch and what   *)
(* follows it up to the inner loop), one per iteration of the inner loop   *)
(* (summary extraction, detail fetch, parse, regex extraction, append),    *)
(* one for the final store, and one for an operator interrupt.  An         *)
(* uncaught exception ends the run in pc = "crashed" with the effects the  *)
(* code had before the raising line.                                       *)
(*                                                                         *)
(* A feature dict is modelled by the sequence of its keys in insertion     *)
(* order (values are copied verbatim by the code and play no role).        *)
(* JSON-LD values are assumed to have the JSON types the code indexes.     *)
(***************************************************************************)
EXTENDS Integers, Sequences, FiniteSets, TLC

VARIABLES
    pc,            \* "pages" | "ads" | "done" | "crashed"
    error,         \* name of the uncaught exception, "" while none
    num_pages,     \* argument of build_rental_datasets
    page,          \* loop variable of the outer loop (0 before the first)
    data,          \* listing objects of the current page not yet visited
    dct,           \* loop variable of the inner loop
    request_url,   \* argument of the last make_get_request call
    response,      \* what the last make_get_request call returned or raised
    discovered,    \* urls of the listing objects found so far (line 77)
    features,      \* feature dict of the current listing (keys, in order)
    text,          \* second text/javascript block of the last detail page
    rows,          \* list of feature dicts
    requests_log,  \* ../logs/requests.log
    errors_log,    \* ../logs/requests_errors.log
    csv,           \* ../data/toronto_apartment_rentals_2020.csv
    num_calls,     \* RateLimitDecorator.num_calls
    elapsed,       \* clock() - last_reset, as of the last granted call
    grants,        \* number of calls the governor has let through
    interval       \* seconds between the last two granted calls

(* State of Dashboard/dashboard/fitbit_API.py and of the credentials row   *)
(* of Dashboard/dashboard/server.py                                        *)
VARIABLES
    access_token,         \* Fitbit.access_token
    refresh_token,        \* Fitbit.refresh_token
    expires_at,           \* Fitbit.expires_at
    token_update_method,  \* TRUE iff Fitbit.token_update_method is set
    credentials,          \* token columns of the row id = 1 of credentials
    now,                  \* time.time(), in seconds
    issued,               \* number of token pairs the token endpoint issued
    call                  \* what the last call on the client did

fitbit_vars == <<access_token, refresh_token, expires_at, token_update_method,
                 credentials, now, issued, call>>

scraper_vars == <<pc, error, num_pages, page, data, dct, request_url, response,
          discovered, features, text, rows, requests_log, errors_log, csv,
          num_calls, elapsed, grants, interval>>

vars == <<scraper_vars, fitbit_vars>>

----------------------------------------------------------------------------
(* Bounds of the model *)

MaxPages == 2     \* num_pages ranges over 0..MaxPages
MaxAds == 1       \* application/ld+json blocks per listing page: 0..MaxAds
MaxClock == 3     \* the clock of the Fitbit client runs over 0..MaxClock
MaxIssued == 2    \* token pairs the token endpoint issues in one run
MaxExpiresIn == 2 \* expires_in of an issued token: 1..MaxExpiresIn seconds
MaxDelay == 5     \* seconds the run may spend between two calls: 0..MaxDelay

(* Program constants *)

Period == 5       \* @limits(period=5)
Calls == 1        \* @limits(calls=1)

----------------------------------------------------------------------------
(* Field names *)

SummaryOrder ==
    <<"street_address", "city", "postal_code", "price",
      "longitude", "latitude", "rental_type">>

RegexOrder ==
    <<"bedrooms", "bathrooms", "sqft", "description_text",
      "year_built", "parking_spots">>

DocColumns ==
    <<"price", "street_address", "city", "postal_code", "longitude",
      "latitude", "rental_type", "bedrooms", "bathrooms", "sqft",
      "year_built", "parking_spots", "description_text">>

Range(s) == {s[i] : i \in 1..Len(s)}

SummaryFields == Range(SummaryOrder)
DetailFields == Range(RegexOrder)

----------------------------------------------------------------------------
(* Rate limiting: ratelimit's @limits(calls=1, period=5) under             *)
(* @sleep_and_retry.  limits is one attempt of the decorated call when     *)
(* el seconds have passed since last_reset and n calls are counted in the  *)
(* window: the window is reset when the period has run out, the attempt is *)
(* counted, and it is refused (RateLimitException carrying                 *)
(* period_remaining) when the count exceeds calls.                         *)

limits(el, n) ==
    LET period_remaining == Period - el
        reset == period_remaining <= 0
        counted == (IF reset THEN 0 ELSE n) + 1
    IN  [raised |-> counted > Calls,
         period_remaining |-> period_remaining,
         num_calls |-> counted,
         elapsed |-> IF reset THEN 0 ELSE el]

(* sleep_and_retry: retry the call after sleeping period_remaining for as  *)
(* long as it is refused; slept is the total time spent sleeping.          *)
RECURSIVE sleep_and_retry(_, _, _)
sleep_and_retry(el, n, slept) ==
    LET r == limits(el, n)
    IN  IF r.raised
        THEN sleep_and_retry(r.elapsed + r.period_remaining, r.num_calls,
                             slept + r.period_remaining)
        ELSE [num_calls |-> r.num_calls, elapsed |-> r.elapsed, slept |-> slept]

(* The governor's part of one make_get_request call issued d seconds after *)
(* the previous granted call (or after the decorator was created).         *)
make_get_request(d) ==
    LET g == sleep_and_retry(elapsed + d, num_calls, 0)
    IN  /\ num_calls' = g.num_calls
        /\ elapsed' = g.elapsed
        /\ grants' = grants + 1
        /\ interval' = d + g.slept

----------------------------------------------------------------------------
(* Extraction *)

(* Index of the first element of order that is not in present, or          *)
(* Len(order) + 1 when all are.                                            *)
FirstMissing(order, present) ==
    LET miss == {i \in 1..Len(order) : order[i] \notin present}
    IN  IF miss = {} THEN Len(order) + 1
        ELSE CHOOSE i \in miss : \A j \in miss : i <= j

(* A summary extraction that keeps nothing unless every lookup succeeds.   *)
ExtractSummaryAllOrNothing(d) ==
    IF d.present = Range(SummaryOrder) THEN SummaryOrder ELSE <<>>

(* The assignments of lines 84-90 under suppress(KeyError): they run in    *)
(* order until the first lookup that raises, which ends the block.         *)
ExtractSummary(d) ==
    SubSeq(SummaryOrder, 1, FirstMissing(SummaryOrder, d.present) - 1)

(* The loop of lines 120-122 under suppress(AttributeError, IndexError):   *)
(* the first pattern without a match raises on .group and ends the loop.   *)
ExtractDetail(feats, payload) ==
    feats \o SubSeq(RegexOrder, 1, FirstMissing(RegexOrder, payload) - 1)

----------------------------------------------------------------------------
(* pandas: DataFrame(list of dicts) takes as columns the keys of the dicts *)
(* in order of first appearance; to_csv(index=False) writes the header and *)
(* one line per row, an empty cell where the row lacks the column.         *)

RECURSIVE Columns(_)
Columns(rs) ==
    IF rs = <<>> THEN <<>>
    ELSE LET prev == Columns(SubSeq(rs, 1, Len(rs) - 1))
             last == rs[Len(rs)]
         IN  prev \o SelectSeq(last, LAMBDA k : k \notin Range(prev))

to_csv(rs) ==
    LET header == Columns(rs)
    IN  [written |-> TRUE,
         header |-> header,
         body |-> [i \in 1..Len(rs) |->
                     [j \in 1..Len(header) |-> header[j] \in Range(rs[i])]]]

----------------------------------------------------------------------------
(* The site: what a GET may return *)

(* A url template that ignores the page number. *)
PageUrlSamePage(p) == <<"page", 1, 0>>

PageUrl(p) == <<"page", p, 0>>
AdUrl(p, k) == <<"ad", p, k>>

PageStatusCodes == {200, 500}
AdStatusCodes == {200, 404}

(* The listing objects and detail payloads of the crawl's specification;   *)
(* SpecListing below ranges over all of them.                              *)
SummaryInputs == {SummaryFields}
PayloadInputs == {DetailFields, DetailFields \ {"bedrooms"}}

(* An application/ld+json block: malformed JSON, an object without url, or *)
(* a listing object with the nested keys in present.                       *)
BlockShapes(summaries) ==
    {[valid |-> FALSE, has_url |-> FALSE, url |-> <<>>, present |-> {}],
     [valid |-> TRUE, has_url |-> FALSE, url |-> <<>>, present |-> {}]}
    \cup {[valid |-> TRUE, has_url |-> TRUE, url |-> <<>>, present |-> s] :
            s \in summaries}

WithUrls(p, blocks) ==
    [k \in 1..Len(blocks) |->
        IF blocks[k].has_url THEN [blocks[k] EXCEPT !.url = AdUrl(p, k)]
        ELSE blocks[k]]

EmptyDocument == [empty |-> TRUE, scripts |-> <<>>]
Document(scripts) == [empty |-> FALSE, scripts |-> scripts]

TransportError == [ok |-> FALSE, status_code |-> 0, content |-> EmptyDocument]

ListingDocuments(p, summaries) ==
    {EmptyDocument} \cup
    {Document(WithUrls(p, b)) :
        b \in UNION {[1..n -> BlockShapes(summaries)] : n \in 0..MaxAds}}

DetailDocuments(payloads) ==
    {EmptyDocument, Document(<<>>), Document(<<{}>>)}
    \cup {Document(<<{}, t>>) : t \in payloads}

Responses(codes, documents) ==
    {TransportError} \cup
    {[ok |-> TRUE, status_code |-> c, content |-> doc] :
        c \in codes, doc \in documents}

Urls(listings) == [k \in 1..Len(listings) |-> listings[k].url]

----------------------------------------------------------------------------
(* The run *)

(* Python's None for a token, for expires_at, and the record of a client   *)
(* on which no call was made.  A token is <<kind, n>>: the n-th token of   *)
(* that kind the token endpoint issued (0: the one gathered at setup).     *)
None == <<>>
NoExpiry == [type |-> "NoneType", value |-> 0]
NoCall == [op |-> "", needed |-> FALSE, posted |-> FALSE, status_code |-> 0,
           raised |-> FALSE, get_sent |-> FALSE, bearer |-> None,
           at |-> 0, updates |-> <<>>,
           before |-> [access_token |-> None, refresh_token |-> None,
                       expires_at |-> NoExpiry, credentials |-> <<>>],
           tokens |-> <<>>]

(* Fitbit.__init__ with its defaults: the crawler builds no client.        *)
NoClient ==
    /\ access_token = None
    /\ refresh_token = None
    /\ expires_at = NoExpiry
    /\ token_update_method = FALSE
    /\ credentials = <<>>
    /\ now = 0
    /\ issued = 0
    /\ call = NoCall

NotWritten == [written |-> FALSE, header |-> <<>>, body |-> <<>>]
NoListing == [valid |-> TRUE, has_url |-> FALSE, url |-> <<>>, present |-> {}]

Init ==
    /\ pc = "pages"
    /\ error = ""
    /\ num_pages \in 0..MaxPages
    /\ page = 0
    /\ data = <<>>
    /\ dct = NoListing
    /\ request_url = <<>>
    /\ response = TransportError
    /\ discovered = <<>>
    /\ features = <<>>
    /\ text = {}
    /\ rows = <<>>
    /\ requests_log = <<>>
    /\ errors_log = <<>>
    /\ csv = NotWritten
    /\ num_calls = 0
    /\ elapsed = 0
    /\ grants = 0
    /\ interval = 0
    /\ NoClient

Raise(exception) ==
    /\ pc' = "crashed"
    /\ error' = exception

LogLine(code, url) == [code |-> code, url |-> url]

(* One iteration of the outer loop, lines 47-77 *)
FetchPage(summaries) ==
    /\ pc = "pages"
    /\ page < num_pages
    /\ \E d \in 0..MaxDelay,
          r \in Responses(PageStatusCodes, ListingDocuments(page + 1, summaries)) :
        LET url == PageUrl(page + 1)
            ads == r.content.scripts
            listings == SelectSeq(ads, LAMBDA b : b.has_url)
        IN  /\ page' = page + 1
            /\ request_url' = url
            /\ make_get_request(d)
            /\ response' = r
            /\ UNCHANGED <<num_pages, dct, features, text, rows, csv,
                           fitbit_vars>>
            /\ IF ~r.ok
               THEN /\ Raise("ConnectionError")
                    /\ UNCHANGED <<data, discovered, requests_log, errors_log>>
               ELSE IF r.content.empty
               THEN /\ Raise("ParserError")
                    /\ UNCHANGED <<data, discovered, requests_log, errors_log>>
               ELSE /\ requests_log' =
                        Append(requests_log, LogLine(r.status_code, url))
                    /\ IF r.status_code # 200
                       THEN /\ errors_log' =
                                Append(errors_log, LogLine(r.status_code, url))
                            /\ UNCHANGED <<pc, error, data, discovered>>
                       ELSE /\ UNCHANGED errors_log
                            /\ IF \E k \in 1..Len(ads) : ~ads[k].valid
                               THEN /\ Raise("JSONDecodeError")
                                    /\ UNCHANGED <<data, discovered>>
                               ELSE /\ data' = listings
                                    /\ discovered' = discovered \o Urls(listings)
                                    /\ pc' = IF listings = <<>> THEN "pages" ELSE "ads"
                                    /\ UNCHANGED error

(* One iteration of the inner loop, lines 79-124 *)
FetchAd(documents) ==
    /\ pc = "ads"
    /\ data # <<>>
    /\ \E d \in 0..MaxDelay, r \in Responses(AdStatusCodes, documents) :
        LET listing == Head(data)
            summary == ExtractSummary(listing)
            scripts == r.content.scripts
        IN  /\ dct' = listing
            /\ request_url' = listing.url
            /\ make_get_request(d)
            /\ response' = r
            /\ UNCHANGED <<num_pages, page, discovered, errors_log, csv,
                           fitbit_vars>>
            /\ IF ~r.ok
               THEN /\ Raise("ConnectionError")
                    /\ features' = summary
                    /\ UNCHANGED <<data, text, rows, requests_log>>
               ELSE /\ requests_log' =
                        Append(requests_log, LogLine(r.status_code, listing.url))
                    /\ IF r.content.empty
                       THEN /\ Raise("ParserError")
                            /\ features' = summary
                            /\ UNCHANGED <<data, text, rows>>
                       ELSE IF Len(scripts) < 2
                       THEN /\ Raise("IndexError")
                            /\ features' = summary
                            /\ UNCHANGED <<data, text, rows>>
                       ELSE /\ text' = scripts[2]
                            /\ features' = ExtractDetail(summary, scripts[2])
                            /\ rows' = Append(rows, features')
                            /\ data' = Tail(data)
                            /\ pc' = IF Tail(data) = <<>> THEN "pages" ELSE "ads"
                            /\ UNCHANGED error

(* Lines 127-128 *)
Store ==
    /\ pc = "pages"
    /\ page = num_pages
    /\ csv' = to_csv(rows)
    /\ pc' = "done"
    /\ UNCHANGED <<error, num_pages, page, data, dct, request_url, response,
                   discovered, features, text, rows, requests_log, errors_log,
                   num_calls, elapsed, grants, interval, fitbit_vars>>

(* The operator interrupts the run: KeyboardInterrupt is raised in the     *)
(* main thread and nothing in the module catches it.                       *)
Interrupt ==
    /\ pc \in {"pages", "ads"}
    /\ Raise("KeyboardInterrupt")
    /\ UNCHANGED <<num_pages, page, data, dct, request_url, response,
                   discovered, features, text, rows, requests_log, errors_log,
                   csv, num_calls, elapsed, grants, interval, fitbit_vars>>

Next ==
    \/ FetchPage(SummaryInputs)
    \/ FetchAd(DetailDocuments(PayloadInputs))
    \/ Store
    \/ Interrupt

Spec == Init /\ [][Next]_vars

----------------------------------------------------------------------------
(* One listing under every listing object and every detail payload: the    *)
(* run of build_rental_datasets(1) as it stands when page 1 has come back  *)
(* with status 200 and a single listing object, whose nested keys range    *)
(* over all subsets, and whose detail payload then ranges over all sets of *)
(* matching patterns.                                                      *)

InitListing ==
    \E s \in SUBSET SummaryFields :
        LET listing == [valid |-> TRUE, has_url |-> TRUE,
                        url |-> AdUrl(1, 1), present |-> s]
        IN  /\ pc = "ads"
            /\ error = ""
            /\ num_pages = 1
            /\ page = 1
            /\ data = <<listing>>
            /\ dct = NoListing
            /\ request_url = PageUrl(1)
            /\ response = [ok |-> TRUE, status_code |-> 200,
                           content |-> Document(<<listing>>)]
            /\ discovered = <<AdUrl(1, 1)>>
            /\ features = <<>>
            /\ text = {}
            /\ rows = <<>>
            /\ requests_log = <<LogLine(200, PageUrl(1))>>
            /\ errors_log = <<>>
            /\ csv = NotWritten
            /\ num_calls = 1
            /\ elapsed = 0
            /\ grants = 1
            /\ interval = 0
            /\ NoClient

NextListing ==
    \/ FetchAd(DetailDocuments(SUBSET DetailFields))
    \/ Store
    \/ Interrupt

SpecListing == InitListing /\ [][NextListing]_vars

----------------------------------------------------------------------------
(* The Fitbit client and its token storage *)

(* "'{}'".format(value) of a float, as stored in the credentials row, and  *)
(* float(value) of either form.                                            *)
str(e) == [type |-> "str", value |-> e.value]
float(e) == e.value

(* not self.expires_at: None and 0.0 are false, a non-empty str is true.   *)
NotTruthy(e) == e.type = "NoneType" \/ (e.type = "float" /\ e.value = 0)

(* An expiry test that lets the token live through its last second. *)
token_expiredLate(e, t) == NotTruthy(e) \/ t > float(e)

token_expired(e, t) == NotTruthy(e) \/ t >= float(e)

StatusCodes == {200, 401}

(* What the token endpoint may answer to a refresh request. *)
TokenAnswers ==
    {[status_code |-> 401, access_token |-> None, refresh_token |-> None,
      expires_in |-> 0]}
    \union
    (IF issued < MaxIssued
     THEN {[status_code |-> 200,
            access_token |-> <<"access", issued + 1>>,
            refresh_token |-> <<"refresh", issued + 1>>,
            expires_in |-> e] : e \in 1..MaxExpiresIn}
     ELSE {})

(* A storage update that leaves the refresh token column alone. *)
update_fitbit_tokensAccessOnly(token_dict) ==
    [access_token |-> token_dict.access_token,
     refresh_token |-> credentials.refresh_token,
     expires_at |-> str(token_dict.expires_at)]

(* Server.update_fitbit_tokens: the row after the UPDATE. *)
update_fitbit_tokens(token_dict) ==
    [access_token |-> token_dict.access_token,
     refresh_token |-> token_dict.refresh_token,
     expires_at |-> str(token_dict.expires_at)]

(* Server.get_fitbit_config: the constructor arguments read from the row. *)
get_fitbit_config(row) ==
    [access_token |-> row.access_token,
     refresh_token |-> row.refresh_token,
     expires_at |-> row.expires_at,
     token_update_method |-> TRUE]

(* The part of refresh_tokens after the status test: the client's fields   *)
(* and the row after it, whether it raised, and the dicts handed to        *)
(* token_update_method.  The update may fail (engine.execute raises),      *)
(* after the instance was assigned.                                        *)
SetTokens(answer, db_ok) ==
    LET tokens == [access_token |-> answer.access_token,
                   refresh_token |-> answer.refresh_token,
                   expires_at |-> [type |-> "float",
                                   value |-> now + answer.expires_in]]
    IN  [raised |-> token_update_method /\ ~db_ok,
         access_token |-> tokens.access_token,
         refresh_token |-> tokens.refresh_token,
         expires_at |-> tokens.expires_at,
         credentials |-> IF token_update_method /\ db_ok
                         THEN update_fitbit_tokens(tokens)
                         ELSE credentials,
         updates |-> IF token_update_method THEN <<tokens>> ELSE <<>>]

Unchanged ==
    [raised |-> FALSE, access_token |-> access_token,
     refresh_token |-> refresh_token, expires_at |-> expires_at,
     credentials |-> credentials, updates |-> <<>>]

(* A refresh that does not look at the status of the answer. *)
refresh_tokensUnchecked(answer, db_ok) == SetTokens(answer, db_ok)

refresh_tokens(answer, db_ok) ==
    IF answer.status_code # 200
    THEN [Unchanged EXCEPT !.raised = TRUE]
    ELSE SetTokens(answer, db_ok)

(* The effect of one call on the client: r is what it left, posted whether *)
(* the token endpoint was asked, get_sent whether the GET was made.        *)
Called(op, needed, posted, answer, r, get_sent) ==
    /\ access_token' = r.access_token
    /\ refresh_token' = r.refresh_token
    /\ expires_at' = r.expires_at
    /\ credentials' = r.credentials
    /\ issued' = IF posted /\ answer.status_code = 200
                 THEN issued + 1 ELSE issued
    /\ call' = [op |-> op, needed |-> needed, posted |-> posted,
                status_code |-> IF posted THEN answer.status_code ELSE 0,
                raised |-> r.raised, get_sent |-> get_sent,
                bearer |-> IF get_sent THEN r.access_token ELSE None,
                at |-> now, updates |-> r.updates,
                before |-> [access_token |-> access_token,
                            refresh_token |-> refresh_token,
                            expires_at |-> expires_at,
                            credentials |-> credentials],
                tokens |-> IF posted /\ answer.status_code = 200
                           THEN <<answer>> ELSE <<>>]
    /\ UNCHANGED <<token_update_method, now, scraper_vars>>

RefreshTokens ==
    \E answer \in TokenAnswers, db_ok \in BOOLEAN :
        Called("refresh_tokens", TRUE, TRUE, answer,
               refresh_tokens(answer, db_ok), FALSE)

GetResource ==
    \E answer \in TokenAnswers, db_ok \in BOOLEAN :
        LET needed == token_expired(expires_at, now)
            r == IF needed THEN refresh_tokens(answer, db_ok) ELSE Unchanged
        IN  Called("get_resource", needed, needed, answer, r, ~r.raised)

Tick ==
    /\ now < MaxClock
    /\ now' = now + 1
    /\ UNCHANGED <<access_token, refresh_token, expires_at,
                   token_update_method, credentials, issued, call,
                   scraper_vars>>

(* A client built as main.py builds it, from the keyword arguments that   *)
(* server.get_fitbit_config() reads from a row holding the tokens gathered *)
(* at setup; no crawl is running.                                          *)
InitFitbit ==
    /\ \E e \in {NoExpiry} \union
                {[type |-> "str", value |-> v] : v \in 0..MaxExpiresIn} :
          /\ credentials = [access_token |-> <<"access", 0>>,
                            refresh_token |-> <<"refresh", 0>>,
                            expires_at |-> e]
          /\ access_token = get_fitbit_config(credentials).access_token
          /\ refresh_token = get_fitbit_config(credentials).refresh_token
          /\ expires_at = get_fitbit_config(credentials).expires_at
          /\ token_update_method =
                get_fitbit_config(credentials).token_update_method
    /\ now = 0
    /\ issued = 0
    /\ call = NoCall
    /\ pc = "pages"
    /\ error = ""
    /\ num_pages = 0
    /\ page = 0
    /\ data = <<>>
    /\ dct = NoListing
    /\ request_url = <<>>
    /\ response = TransportError
    /\ discovered = <<>>
    /\ features = <<>>
    /\ text = {}
    /\ rows = <<>>
    /\ requests_log = <<>>
    /\ errors_log = <<>>
    /\ csv = NotWritten
    /\ num_calls = 0
    /\ elapsed = 0
    /\ grants = 0
    /\ interval = 0

NextFitbit ==
    \/ GetResource
    \/ RefreshTokens
    \/ Tick

SpecFitbit == InitFitbit /\ [][NextFitbit]_vars

----------------------------------------------------------------------------
(* Properties *)

Last(s) == s[Len(s)]
IsAdUrl(u) == u # <<>> /\ u[1] = "ad"
IsPageUrl(u) == u # <<>> /\ u[1] = "page"
Is2xx(code) == code >= 200 /\ code < 300
LinesFor(log, u) == {k \in 1..Len(log) : log[k].url = u}

(* The last call returned an HTTP response to the run. *)
Answered == grants > 0 /\ response.ok

(* The inner-loop iteration of dct ran to its end: its record is the last  *)
(* row.                                                                    *)
Appended == dct.has_url /\ rows # <<>> /\ request_url = dct.url
            /\ pc # "crashed" /\ features = Last(rows)

(* C1: any two successive calls let through by the rate limiter are at     *)
(* least Period seconds apart, the first two after its creation included.  *)
C1_MinInterval == grants >= 2 => interval >= Period

(* C2: detail extraction is independent per field: the record of a listing *)
(* whose detail payload was searched carries a detail field exactly when   *)
(* that field's pattern matches the payload.                               *)
C2_FieldIndependent ==
    Appended =>
        \A f \in DetailFields : f \in Range(Last(rows)) <=> f \in text

(* C3: a detail page without a second text/javascript block still gives a  *)
(* record, made of the summary fields only, and the crawl goes on.         *)
C3_NoSecondScript ==
    (Answered /\ IsAdUrl(request_url) /\ ~response.content.empty
        /\ Len(response.content.scripts) < 2)
    => /\ pc # "crashed"
       /\ rows # <<>>
       /\ Last(rows) = ExtractSummary(dct)

C5_FailedPageSkipped ==
    (Answered /\ IsPageUrl(request_url) /\ ~Is2xx(response.status_code)
        /\ error # "KeyboardInterrupt")
    => /\ pc \in {"pages", "done"}
       /\ Cardinality(LinesFor(errors_log, request_url)) = 1
       /\ data = <<>>
       /\ \A k \in 1..Len(requests_log) :
             requests_log[k].url[2] = page => requests_log[k].url = request_url

(* C6: while the run goes on, the error log holds exactly the request-log  *)
(* lines of the fetches answered with a non-2xx status, listing and detail *)
(* pages alike, and no field is taken from the body of such an answer.     *)
C6_ErrorLogIffNon2xx ==
    pc # "crashed" =>
        /\ errors_log = SelectSeq(requests_log, LAMBDA l : ~Is2xx(l.code))
        /\ (Answered /\ ~Is2xx(response.status_code) /\ IsAdUrl(request_url))
            => Range(features) \cap DetailFields = {}

(* C7: a transport failure of a fetch is logged as an error and does not   *)
(* end the run.                                                            *)
C7_TransportNonFatal ==
    (grants > 0 /\ ~response.ok)
    => /\ pc # "crashed"
       /\ LinesFor(errors_log, request_url) # {}

(* C8: a run that has ended, by completing or at a page whose fields could *)
(* not be extracted, has written one record per listing url discovered.    *)
C8_OneRecordPerListing ==
    (\/ pc = "done"
     \/ pc = "crashed" /\ error \in {"IndexError", "ParserError"}
                       /\ IsAdUrl(request_url))
    => /\ csv.written
       /\ Len(csv.body) = Len(discovered)

(* C9: the written table has the 13 documented columns in the documented   *)
(* order, whatever was extracted and also when there is no record.         *)
C9_FixedColumns == csv.written => csv.header = DocColumns

(* C10: an interrupt after at least one record was assembled still writes  *)
(* the file, with every record assembled so far.                           *)
C10_InterruptFlushes ==
    (error = "KeyboardInterrupt" /\ rows # <<>>)
    => /\ csv.written
       /\ Len(csv.body) = Len(rows)

(* C11: on a listing page fetched with status 200, a malformed             *)
(* application/ld+json block or one without url is dropped without error:  *)
(* the valid listing objects of the page are all kept for their detail     *)
(* fetch, and a page without any gives no record and lets the run go on.   *)
C11_BadBlocksDiscarded ==
    (Answered /\ IsPageUrl(request_url) /\ response.status_code = 200
        /\ ~response.content.empty /\ error # "KeyboardInterrupt")
    => LET ads == response.content.scripts
           good == {k \in 1..Len(ads) : ads[k].valid /\ ads[k].has_url}
       IN  /\ error # "JSONDecodeError"
           /\ \A k \in good : ads[k].url \in Range(discovered)
           /\ good = {} => (pc \in {"pages", "done"} /\ data = <<>>)

(* The urls requested so far, in order: the logged ones, then the one of   *)
(* a last request that ended the run before its log line.                 *)
Fetched ==
    LET logged == Urls(requests_log)
    IN  IF request_url = <<>> \/ (logged # <<>> /\ Last(logged) = request_url)
        THEN logged
        ELSE Append(logged, request_url)

Before(u, v) == u[2] < v[2] \/ (u[2] = v[2] /\ u[3] < v[3])

C12_AutoRefresh ==
    call.op = "get_resource" =>
        LET e == call.before.expires_at
            due == e.type = "NoneType" \/ call.at >= e.value
        IN  /\ call.get_sent <=> ~call.raised
            /\ due =>
                /\ call.posted
                /\ call.get_sent =>
                    /\ call.status_code = 200
                    /\ call.tokens # <<>>
                    /\ call.bearer = call.tokens[1].access_token
                    /\ call.bearer # call.before.access_token
                    /\ call.bearer = access_token
                    /\ call.updates # <<>>
                    /\ credentials.access_token = call.bearer
            /\ ~due =>
                /\ ~call.posted
                /\ call.get_sent
                /\ call.bearer = call.before.access_token
                /\ access_token = call.before.access_token
                /\ refresh_token = call.before.refresh_token
                /\ expires_at = call.before.expires_at

(* A token issued by an earlier refresh is used in the very second it      *)
(* expires, and the call refreshes it and sends the GET.                   *)
C12_Witness ==
    /\ call.op = "get_resource"
    /\ call.before.expires_at.type = "float"
    /\ call.at = call.before.expires_at.value
    /\ call.posted
    /\ call.get_sent

(* C13: after a refresh_tokens call that returned, the client holds the    *)
(* access token, refresh token and expiry just issued, the same three      *)
(* values were handed to token_update_method, and the credentials row      *)
(* holds them: a client built from the row has the same valid tokens.      *)
C13_StorageMatches ==
    (call.posted /\ ~call.raised) =>
        /\ call.tokens # <<>>
        /\ access_token = call.tokens[1].access_token
        /\ refresh_token = call.tokens[1].refresh_token
        /\ expires_at = [type |-> "float",
                         value |-> call.at + call.tokens[1].expires_in]
        /\ access_token # call.before.access_token
        /\ refresh_token # call.before.refresh_token
        /\ call.updates = <<[access_token |-> access_token,
                             refresh_token |-> refresh_token,
                             expires_at |-> expires_at]>>
        /\ LET client == get_fitbit_config(credentials)
           IN  /\ client.access_token = access_token
               /\ client.refresh_token = refresh_token
               /\ float(client.expires_at) = float(expires_at)
               /\ call.at < float(client.expires_at)

(* A second refresh, called directly, that replaced row and instance. *)
C13_Witness ==
    /\ call.op = "refresh_tokens"
    /\ ~call.raised
    /\ issued = 2
    /\ credentials # call.before.credentials
    /\ call.before.access_token = <<"access", 1>>

(* C15: when the token endpoint answers a refresh with a status other than *)
(* 200, the call raises, the client's three token fields and the row are   *)
(* as before, token_update_method was not called, and a get_resource call  *)
(* that needed the refresh sent no GET.                                    *)
C15_FailedRefreshNoEffect ==
    (call.posted /\ call.status_code # 200) =>
        /\ call.raised
        /\ access_token = call.before.access_token
        /\ refresh_token = call.before.refresh_token
        /\ expires_at = call.before.expires_at
        /\ call.updates = <<>>
        /\ credentials = call.before.credentials
        /\ ~call.get_sent
        /\ call.bearer = None

(* get_resource on an expired, once refreshed token is refused a refresh. *)
C15_Witness ==
    /\ call.op = "get_resource"
    /\ call.posted
    /\ call.status_code = 401
    /\ call.before.access_token = <<"access", 1>>
    /\ call.raised

====
